---- MODULE Spec2Model ----
(***************************************************************************)
(* State-machine model of the compound-component widgets: the positional   *)
(* Tabs, the Accordion and the Modal of src/src/App.tsx and the keyed Tabs  *)
(* of src/unnamed/part_000.  State updates queued with setState(updater)   *)
(* are applied in call order, so each handler is one atomic action.        *)
(***************************************************************************)
EXTENDS Integers, Sequences, FiniteSets, TLC

\* ------------------------------------------------------------------ bounds

\* Number of trigger/content pairs whose identifiers the environment uses.
NumIds == 3

AllTriggerIds == <<"t1", "t2", "t3", "t4", "t5">>
AllContentIds == <<"c1", "c2", "c3", "c4", "c5">>

Pairs == 1..NumIds
TriggerIds == {AllTriggerIds[i] : i \in Pairs}
ContentIds == {AllContentIds[i] : i \in Pairs}

\* JavaScript null / undefined.
Null == "null"
Undefined == "undefined"

\* ------------------------------------------------------------- JS helpers

\* Array.prototype.findIndex (0-based index of the first match, -1 if none)
\* with the test x => x.id === id.  Array.prototype.find is the element at
\* that index, undefined for -1.
FindIndexById(arr, id) ==
    IF \E i \in 1..Len(arr) : arr[i].id = id
    THEN (CHOOSE i \in 1..Len(arr) :
              arr[i].id = id /\ \A j \in 1..(i - 1) : arr[j].id # id) - 1
    ELSE -1

\* Array.prototype.findIndex with the test x => x.contentId === contentId.
FindIndexByContentId(arr, contentId) ==
    IF \E i \in 1..Len(arr) : arr[i].contentId = contentId
    THEN (CHOOSE i \in 1..Len(arr) :
              /\ arr[i].contentId = contentId
              /\ \A j \in 1..(i - 1) : arr[j].contentId # contentId) - 1
    ELSE -1

\* arr[i]?.contentId with a 0-based index: undefined when i is out of range.
ContentIdAt(arr, i) ==
    IF i >= 0 /\ i < Len(arr) THEN arr[i + 1].contentId ELSE Undefined

\* JavaScript truthiness of a string, null or undefined.
Truthy(x) == x # Null /\ x # Undefined /\ x # ""

\* Number(s) and String(n) on the decimal numerals the keyed Tabs uses.
Numerals == <<"0", "1", "2", "3", "4">>
Number(s) == (CHOOSE i \in 1..Len(Numerals) : Numerals[i] = s) - 1
String(n) == Numerals[n + 1]

\* ------------------------------------------------------------------ state


VARIABLES
    widget,                 \* the widget tree a behaviour exercises
    tabs,                   \* RootTabs: useState<TabItem[]>
    activeContentId,        \* RootTabs: useState<string | null>
    items,                  \* RootAccordion: useState<AccordionItem[]>
    accordionActiveContentId, \* RootAccordion: useState<string | null>
    value,                  \* keyed RootTabs: the value prop (App's activeTab)
    internalValue,          \* keyed RootTabs: useState(defaultActiveKey)
    onChange,               \* keyed RootTabs: the onChange prop
    mounted,                \* lifecycle: pairs whose views are mounted
    effects,                \* lifecycle: mount effects still to run, in order
    cleanups,               \* lifecycle: effect cleanups still to run
    isOpen,                 \* RootModal: useState(false)
    listeners,              \* document: attached keydown handleEscape listeners
    effectLive,             \* ModalContent: the last effect returned a cleanup
    effectPhase,            \* ModalContent: "settled", or the effect step due
    modalMounted,           \* the Modal tree (RootModal, ModalContent) is mounted
    opens,                  \* history: times the mounted modal was opened (2 = more)
    lastKey,                \* history: the key of the last keydown event
    handlerCalls,           \* history: handleEscape invocations it caused
    strictOrder,            \* StrictMode root: the pairs of the tree, in tree order
    strictQueue,            \* StrictMode root: the effect and cleanup runs still due
    calls,                  \* history: onChange invocations of the last setValue
    log,                    \* history: registration calls since construction
    logOk,                  \* history: log holds the whole call history
    contentCalls            \* history: registerContent calls so far (0, 1, 2+)

tabsVars == <<tabs, activeContentId>>
accordionVars == <<items, accordionActiveContentId>>
keyedVars == <<value, internalValue, onChange>>
lifecycleVars == <<mounted, effects, cleanups>>
modalVars == <<isOpen, listeners, effectLive, effectPhase, modalMounted, opens,
               lastKey, handlerCalls>>
strictVars == <<strictOrder, strictQueue>>
historyVars == <<calls, log, logOk, contentCalls>>
vars == <<widget, tabsVars, accordionVars, keyedVars, lifecycleVars, modalVars,
          strictVars, historyVars>>

\* ------------------------------------------------------- positional Tabs

\* Mutant: the new slot is put in front of the existing ones.
RootTabs_registerTrigger_prepend(prev, id) ==
    IF FindIndexById(prev, id) # -1
    THEN prev
    ELSE <<[id |-> id, contentId |-> Null, isActive |-> FALSE]>> \o prev

\* setTabs updater of registerTrigger.
RootTabs_registerTrigger(prev, id) ==
    IF FindIndexById(prev, id) # -1
    THEN prev
    ELSE Append(prev, [id |-> id, contentId |-> Null, isActive |-> FALSE])

\* Mutant: the alreadyRegistered check is missing.
RootTabs_registerContent_noCheck(prev, contentId) ==
    LET lastUnregistred == FindIndexByContentId(prev, Null)
    IN  IF lastUnregistred = -1 THEN prev
        ELSE [prev EXCEPT ![lastUnregistred + 1].contentId = contentId]

\* Mutant: the content is bound to the last unmatched slot, not the first.
RootTabs_registerContent_lastUnmatched(prev, contentId) ==
    LET alreadyRegistered == \E i \in 1..Len(prev) : prev[i].contentId = contentId
        unmatched == {i \in 1..Len(prev) : prev[i].contentId = Null}
    IN  IF alreadyRegistered THEN prev
        ELSE IF unmatched = {} THEN prev
        ELSE LET last == CHOOSE i \in unmatched : \A j \in unmatched : j <= i
             IN  [prev EXCEPT ![last].contentId = contentId]

\* setTabs updater of registerContent.
RootTabs_registerContent(prev, contentId) ==
    LET alreadyRegistered == \E i \in 1..Len(prev) : prev[i].contentId = contentId
        lastUnregistred == FindIndexByContentId(prev, Null)
    IN  IF alreadyRegistered THEN prev
        ELSE IF lastUnregistred = -1 THEN prev
        ELSE LET triggerId == prev[lastUnregistred + 1].id
             IN  [i \in 1..Len(prev) |->
                     IF prev[i].id = triggerId
                     THEN [prev[i] EXCEPT !.contentId = contentId]
                     ELSE prev[i]]

\* Mutant: every content registration takes over the active identifier.
RootTabs_initActiveContentId_always(prev, contentId) == contentId

\* setActiveContentId updater of registerContent.
RootTabs_initActiveContentId(prev, contentId) ==
    IF ~Truthy(prev) THEN contentId ELSE prev

\* Mutant: the removed slot's content is handed to the first unmatched slot.
RootTabs_unregisterTrigger_rebind(prev, id) ==
    LET at == FindIndexById(prev, id)
        rest == SelectSeq(prev, LAMBDA tab : tab.id # id)
        free == FindIndexByContentId(rest, Null)
    IN  IF at = -1 \/ free = -1 THEN rest
        ELSE [rest EXCEPT ![free + 1].contentId = prev[at + 1].contentId]

\* setTabs updater of unregisterTrigger.
RootTabs_unregisterTrigger(prev, id) ==
    SelectSeq(prev, LAMBDA tab : tab.id # id)

\* Mutant: the slot that lost its content moves behind the other slots.
RootTabs_unregisterContent_moveLast(prev, contentId) ==
    SelectSeq(prev, LAMBDA tab : tab.contentId # contentId) \o
    [i \in 1..Len(SelectSeq(prev, LAMBDA tab : tab.contentId = contentId)) |->
        [SelectSeq(prev, LAMBDA tab : tab.contentId = contentId)[i]
            EXCEPT !.contentId = Null]]

\* Mutant: the slot is removed together with its content.
RootTabs_unregisterContent_remove(prev, contentId) ==
    SelectSeq(prev, LAMBDA tab : tab.contentId # contentId)

\* setTabs updater of unregisterContent.
RootTabs_unregisterContent(prev, contentId) ==
    [i \in 1..Len(prev) |->
        IF prev[i].contentId = contentId
        THEN [prev[i] EXCEPT !.contentId = Null]
        ELSE prev[i]]

\* TabsTrigger: isActive = myTab?.contentId === activeContentId.
TabsTrigger_isActive(reg, active, triggerId) ==
    LET myTab == FindIndexById(reg, triggerId)
    IN  ContentIdAt(reg, myTab) = active

\* Mutant: an active identifier its registry no longer binds is reset.
RootTabs_unregister_activeContentId_reset(after, active) ==
    IF \E k \in 1..Len(after) : after[k].contentId = active THEN active ELSE Null

\* unregisterTrigger and unregisterContent call setTabs only: the
\* activeContentId they leave, "after" being the registry they leave.
RootTabs_unregister_activeContentId(after, active) == active

\* Mutant: the click activates whatever the slot holds, also no content.
TabsTrigger_handleClick_unguarded(reg, active, triggerId) ==
    LET myTab == FindIndexById(reg, triggerId)
    IN  IF myTab # -1 THEN ContentIdAt(reg, myTab) ELSE active

\* TabsTrigger.handleClick: the activeContentId it leaves.
TabsTrigger_handleClick(reg, active, triggerId) ==
    LET myTab == FindIndexById(reg, triggerId)
    IN  IF Truthy(ContentIdAt(reg, myTab)) THEN ContentIdAt(reg, myTab) ELSE active

\* Mutant: "previous" does not wrap from the first slot to the last.
TabsNavigate_handlePrev_noWrap(reg, active) ==
    IF ~Truthy(active) THEN active
    ELSE LET currentIndex == FindIndexByContentId(reg, active)
             prevTab == currentIndex - 1
         IN  IF currentIndex = -1 THEN active
             ELSE IF Truthy(ContentIdAt(reg, prevTab))
                  THEN ContentIdAt(reg, prevTab) ELSE active

\* TabsNavigate.handlePrev: the activeContentId it leaves.  The buttons are
\* rendered only while activeContentId is truthy.
TabsNavigate_handlePrev(reg, active) ==
    IF ~Truthy(active) THEN active
    ELSE LET currentIndex == FindIndexByContentId(reg, active)
             lastTab == Len(reg) - 1
             prevTab == currentIndex - 1
         IN  IF currentIndex = -1 THEN active
             ELSE IF currentIndex = 0
             THEN IF Truthy(ContentIdAt(reg, lastTab))
                  THEN ContentIdAt(reg, lastTab) ELSE active
             ELSE IF Truthy(ContentIdAt(reg, prevTab))
                  THEN ContentIdAt(reg, prevTab) ELSE active

\* Mutant: "next" does not wrap from the last slot to the first.
TabsNavigate_handleNext_noWrap(reg, active) ==
    IF ~Truthy(active) THEN active
    ELSE LET currentIndex == FindIndexByContentId(reg, active)
             nextTab == currentIndex + 1
         IN  IF currentIndex = -1 THEN active
             ELSE IF Truthy(ContentIdAt(reg, nextTab))
                  THEN ContentIdAt(reg, nextTab) ELSE active

\* Mutant: the early return for an active content bound to no slot is missing.
TabsNavigate_handleNext_noGuard(reg, active) ==
    IF ~Truthy(active) THEN active
    ELSE LET currentIndex == FindIndexByContentId(reg, active)
             firstTab == 0
             nextTab == currentIndex + 1
         IN  IF currentIndex = Len(reg) - 1
             THEN IF Truthy(ContentIdAt(reg, firstTab))
                  THEN ContentIdAt(reg, firstTab) ELSE active
             ELSE IF Truthy(ContentIdAt(reg, nextTab))
                  THEN ContentIdAt(reg, nextTab) ELSE active

\* TabsNavigate.handleNext: the activeContentId it leaves.
TabsNavigate_handleNext(reg, active) ==
    IF ~Truthy(active) THEN active
    ELSE LET currentIndex == FindIndexByContentId(reg, active)
             firstTab == 0
             nextTab == currentIndex + 1
         IN  IF currentIndex = -1 THEN active
             ELSE IF currentIndex = Len(reg) - 1
             THEN IF Truthy(ContentIdAt(reg, firstTab))
                  THEN ContentIdAt(reg, firstTab) ELSE active
             ELSE IF Truthy(ContentIdAt(reg, nextTab))
                  THEN ContentIdAt(reg, nextTab) ELSE active

\* -------------------------------------------------------------- Accordion

\* Mutant: the duplicate check is missing.
RootAccordion_registerTrigger_noCheck(prev, id) ==
    Append(prev, [id |-> id, contentId |-> Null])

\* setItems updater of registerTrigger.
RootAccordion_registerTrigger(prev, id) ==
    IF FindIndexById(prev, id) # -1
    THEN prev
    ELSE Append(prev, [id |-> id, contentId |-> Null])

\* Mutant: the content is bound to the newest slot when that slot is unmatched.
RootAccordion_registerContent_newest(prev, contentId) ==
    LET alreadyRegistered == FindIndexByContentId(prev, contentId)
    IN  IF alreadyRegistered # -1 THEN prev
        ELSE IF prev = <<>> THEN prev
        ELSE IF prev[Len(prev)].contentId # Null THEN prev
        ELSE [prev EXCEPT ![Len(prev)].contentId = contentId]

\* Mutant: with no unmatched slot left, the content takes over the last slot.
RootAccordion_registerContent_steal(prev, contentId) ==
    LET alreadyRegistered == FindIndexByContentId(prev, contentId)
        lastUnregistred == FindIndexByContentId(prev, Null)
    IN  IF alreadyRegistered # -1 THEN prev
        ELSE IF prev = <<>> THEN prev
        ELSE IF lastUnregistred = -1
        THEN [prev EXCEPT ![Len(prev)].contentId = contentId]
        ELSE [prev EXCEPT ![lastUnregistred + 1].contentId = contentId]

\* setItems updater of registerContent.
RootAccordion_registerContent(prev, contentId) ==
    LET alreadyRegistered == FindIndexByContentId(prev, contentId)
        lastUnregistred == FindIndexByContentId(prev, Null)
    IN  IF alreadyRegistered # -1 THEN prev
        ELSE IF lastUnregistred = -1 THEN prev
        ELSE LET triggerId == prev[lastUnregistred + 1].id
             IN  [i \in 1..Len(prev) |->
                     IF prev[i].id = triggerId
                     THEN [prev[i] EXCEPT !.contentId = contentId]
                     ELSE prev[i]]

\* AccordionTrigger: isActive = myItem?.contentId === activeContentId.
AccordionTrigger_isActive(reg, active, triggerId) ==
    LET myItem == FindIndexById(reg, triggerId)
    IN  ContentIdAt(reg, myItem) = active

\* Mutant: a click on the active item's trigger does not close it.
AccordionTrigger_handleClick_noToggle(reg, active, triggerId) ==
    LET myItem == FindIndexById(reg, triggerId)
    IN  IF Truthy(ContentIdAt(reg, myItem)) THEN ContentIdAt(reg, myItem) ELSE active

\* AccordionTrigger.handleClick: the activeContentId it leaves.
AccordionTrigger_handleClick(reg, active, triggerId) ==
    LET myItem == FindIndexById(reg, triggerId)
    IN  IF Truthy(ContentIdAt(reg, myItem))
        THEN IF ContentIdAt(reg, myItem) = active THEN Null ELSE ContentIdAt(reg, myItem)
        ELSE active

\* ------------------------------------------------------------- keyed Tabs

\* The keys the demo page declares, and the ends TabsNavigate wraps at.
FirstKey == 1
LastKey == 3
Keys == {String(n) : n \in FirstKey..LastKey}

\* RootTabs: isControlled and activeKey.
RootTabs_isControlled(v) == v # Undefined
RootTabs_activeKey(v, internal) ==
    IF RootTabs_isControlled(v) THEN v ELSE internal

\* Mutant: the early return for an unchanged key is missing.
RootTabs_setValue_calls_noGuard(v, internal, cb, newValue) ==
    IF RootTabs_isControlled(v)
    THEN IF cb # Undefined THEN <<newValue>> ELSE <<>>
    ELSE <<>>

\* RootTabs.setValue: the arguments onChange is invoked with, in order.
RootTabs_setValue_calls(v, internal, cb, newValue) ==
    IF newValue = RootTabs_activeKey(v, internal) THEN <<>>
    ELSE IF RootTabs_isControlled(v)
         THEN IF cb # Undefined THEN <<newValue>> ELSE <<>>
         ELSE <<>>

\* RootTabs.setValue: the internalValue it leaves.
RootTabs_setValue_internal(v, internal, newValue) ==
    IF newValue = RootTabs_activeKey(v, internal) THEN internal
    ELSE IF RootTabs_isControlled(v) THEN internal
    ELSE newValue

\* App: onChange={setActiveTab} stores each argument as the next value prop.
App_setActiveTab(v, args) ==
    IF args = <<>> THEN v ELSE args[Len(args)]

\* keyed TabsNavigate.handlePrev / handleNext: the key passed to setValue.
TabsNavigate_prevKey(activeKey) ==
    IF Number(activeKey) = FirstKey THEN String(LastKey)
    ELSE String(Number(activeKey) - 1)

TabsNavigate_nextKey(activeKey) ==
    IF Number(activeKey) = LastKey THEN String(FirstKey)
    ELSE String(Number(activeKey) + 1)

\* ---------------------------------------------------------------- history

CountOp(l, op) == Cardinality({i \in 1..Len(l) : l[i].op = op})

\* log keeps the call history while it consists of registerTrigger and
\* registerContent calls with pairwise distinct ids in which no prefix holds
\* more content registrations than trigger registrations.
Logged(op, arg) ==
    IF /\ logOk
       /\ op \in {"registerTrigger", "registerContent"}
       /\ \A i \in 1..Len(log) : log[i].arg # arg
       /\ op = "registerContent" =>
              CountOp(log, "registerContent") < CountOp(log, "registerTrigger")
    THEN log' = Append(log, [op |-> op, arg |-> arg]) /\ logOk' = TRUE
    ELSE log' = <<>> /\ logOk' = FALSE

RecordRegistryCall(op, arg) ==
    /\ Logged(op, arg)
    /\ contentCalls' = IF op = "registerContent"
                       THEN (IF contentCalls = 0 THEN 1 ELSE 2)
                       ELSE contentCalls
    /\ UNCHANGED calls

\* A user action ends the pure registration history.
RecordUserAction ==
    /\ log' = <<>>
    /\ logOk' = FALSE
    /\ UNCHANGED <<calls, contentCalls>>

\* ---------------------------------------------- positional Tabs: handlers

TabsRegisterTrigger(id) ==
    /\ tabs' = RootTabs_registerTrigger(tabs, id)
    /\ UNCHANGED activeContentId
    /\ RecordRegistryCall("registerTrigger", id)

TabsRegisterContent(contentId) ==
    /\ tabs' = RootTabs_registerContent(tabs, contentId)
    /\ activeContentId' = RootTabs_initActiveContentId(activeContentId, contentId)
    /\ RecordRegistryCall("registerContent", contentId)

TabsUnregisterTrigger(id) ==
    /\ tabs' = RootTabs_unregisterTrigger(tabs, id)
    /\ activeContentId' = RootTabs_unregister_activeContentId(tabs', activeContentId)
    /\ RecordRegistryCall("unregisterTrigger", id)

TabsUnregisterContent(contentId) ==
    /\ tabs' = RootTabs_unregisterContent(tabs, contentId)
    /\ activeContentId' = RootTabs_unregister_activeContentId(tabs', activeContentId)
    /\ RecordRegistryCall("unregisterContent", contentId)

TabsOthersUnchanged ==
    UNCHANGED <<widget, accordionVars, keyedVars, lifecycleVars, modalVars, strictVars>>

\* The Tabs registry driven by arbitrary calls of its four operations.
CallRegisterTrigger(id) ==
    widget = "Tabs" /\ TabsRegisterTrigger(id) /\ TabsOthersUnchanged

CallRegisterContent(contentId) ==
    widget = "Tabs" /\ TabsRegisterContent(contentId) /\ TabsOthersUnchanged

CallUnregisterTrigger(id) ==
    widget = "Tabs" /\ TabsUnregisterTrigger(id) /\ TabsOthersUnchanged

CallUnregisterContent(contentId) ==
    widget = "Tabs" /\ TabsUnregisterContent(contentId) /\ TabsOthersUnchanged

TabsClick(triggerId) ==
    /\ widget = "Tabs"
    /\ activeContentId' = TabsTrigger_handleClick(tabs, activeContentId, triggerId)
    /\ UNCHANGED tabs
    /\ RecordUserAction
    /\ TabsOthersUnchanged

TabsPrev ==
    /\ widget = "Tabs"
    /\ activeContentId' = TabsNavigate_handlePrev(tabs, activeContentId)
    /\ UNCHANGED tabs
    /\ RecordUserAction
    /\ TabsOthersUnchanged

TabsNext ==
    /\ widget = "Tabs"
    /\ activeContentId' = TabsNavigate_handleNext(tabs, activeContentId)
    /\ UNCHANGED tabs
    /\ RecordUserAction
    /\ TabsOthersUnchanged

\* --------------------------------------------- positional Tabs: lifecycle

\* Pair i is the i-th trigger and its partner content.
TriggerOf(i) == AllTriggerIds[i]
ContentOf(i) == AllContentIds[i]

Orders(S) ==
    {o \in [1..Cardinality(S) -> S] : \A a, b \in 1..Cardinality(S) : o[a] = o[b] => a = b}

\* A commit that mounts the pairs of order: the trigger effects run in that
\* order, then the content effects in the same order.
Mount(order) ==
    /\ widget = "TabsLifecycle"
    /\ effects = <<>> /\ cleanups = {}
    /\ order # <<>>
    /\ mounted' = mounted \cup {order[k] : k \in 1..Len(order)}
    /\ effects' = [k \in 1..Len(order) |->
                       [op |-> "registerTrigger", arg |-> TriggerOf(order[k])]]
                  \o [k \in 1..Len(order) |->
                       [op |-> "registerContent", arg |-> ContentOf(order[k])]]
    /\ UNCHANGED <<widget, tabsVars, accordionVars, keyedVars, cleanups, modalVars, strictVars,
                   historyVars>>

\* A commit that unmounts the pairs of S: both cleanups of each pair run, in
\* any order.
Unmount(S) ==
    /\ widget = "TabsLifecycle"
    /\ effects = <<>> /\ cleanups = {}
    /\ S # {}
    /\ mounted' = mounted \ S
    /\ cleanups' = {[op |-> "unregisterTrigger", arg |-> TriggerOf(i)] : i \in S}
                   \cup {[op |-> "unregisterContent", arg |-> ContentOf(i)] : i \in S}
    /\ UNCHANGED <<widget, tabsVars, accordionVars, keyedVars, effects, modalVars, strictVars,
                   historyVars>>

MountSome ==
    /\ widget = "TabsLifecycle"
    /\ effects = <<>> /\ cleanups = {}
    /\ \E S \in SUBSET (Pairs \ mounted) : \E order \in Orders(S) : Mount(order)

UnmountSome ==
    /\ widget = "TabsLifecycle"
    /\ effects = <<>> /\ cleanups = {}
    /\ \E S \in SUBSET mounted : Unmount(S)

\* useEffect bodies of TabsTrigger and TabsContent.
RunEffect ==
    /\ widget = "TabsLifecycle"
    /\ effects # <<>>
    /\ \/ /\ Head(effects).op = "registerTrigger"
          /\ TabsRegisterTrigger(Head(effects).arg)
       \/ /\ Head(effects).op = "registerContent"
          /\ TabsRegisterContent(Head(effects).arg)
    /\ effects' = Tail(effects)
    /\ UNCHANGED <<widget, accordionVars, keyedVars, mounted, cleanups, modalVars,
                   strictVars>>

\* useEffect cleanups of TabsTrigger and TabsContent.
RunCleanup(c) ==
    /\ widget = "TabsLifecycle"
    /\ c \in cleanups
    /\ \/ /\ c.op = "unregisterTrigger"
          /\ TabsUnregisterTrigger(c.arg)
       \/ /\ c.op = "unregisterContent"
          /\ TabsUnregisterContent(c.arg)
    /\ cleanups' = cleanups \ {c}
    /\ UNCHANGED <<widget, accordionVars, keyedVars, mounted, effects, modalVars,
                   strictVars>>

\* ---------------------------------------------------- Accordion: handlers

AccordionOthersUnchanged ==
    UNCHANGED <<widget, tabsVars, keyedVars, lifecycleVars, modalVars, strictVars>>

AccordionRegisterTrigger(id) ==
    /\ widget = "Accordion"
    /\ items' = RootAccordion_registerTrigger(items, id)
    /\ UNCHANGED accordionActiveContentId
    /\ RecordRegistryCall("registerTrigger", id)
    /\ AccordionOthersUnchanged

AccordionRegisterContent(contentId) ==
    /\ widget = "Accordion"
    /\ items' = RootAccordion_registerContent(items, contentId)
    /\ UNCHANGED accordionActiveContentId
    /\ RecordRegistryCall("registerContent", contentId)
    /\ AccordionOthersUnchanged

AccordionClick(triggerId) ==
    /\ widget = "Accordion"
    /\ accordionActiveContentId' =
           AccordionTrigger_handleClick(items, accordionActiveContentId, triggerId)
    /\ UNCHANGED items
    /\ RecordUserAction
    /\ AccordionOthersUnchanged

\* --------------------------------------------------- keyed Tabs: handlers

\* RootTabs.setValue, with App's setActiveTab as the change callback.
SetValue(newValue) ==
    /\ widget = "KeyedTabs"
    /\ calls' = RootTabs_setValue_calls(value, internalValue, onChange, newValue)
    /\ internalValue' = RootTabs_setValue_internal(value, internalValue, newValue)
    /\ value' = App_setActiveTab(value, calls')
    /\ UNCHANGED <<widget, tabsVars, accordionVars, onChange, lifecycleVars,
                   modalVars, strictVars, log, logOk, contentCalls>>

KeyedClick(v) == SetValue(v)

KeyedPrev ==
    SetValue(TabsNavigate_prevKey(RootTabs_activeKey(value, internalValue)))

KeyedNext ==
    SetValue(TabsNavigate_nextKey(RootTabs_activeKey(value, internalValue)))

\* ------------------------------------------------- StrictMode root: mount

\* The mount effects of the pairs of order, in the order React runs them:
\* Tabs renders the triggers in Tabs.List before the contents, an Accordion
\* item renders its trigger and then its content.
MountEffects(w, order) ==
    IF w = "StrictTabs"
    THEN [k \in 1..Len(order) |->
             [op |-> "registerTrigger", arg |-> TriggerOf(order[k])]]
         \o [k \in 1..Len(order) |->
             [op |-> "registerContent", arg |-> ContentOf(order[k])]]
    ELSE [k \in 1..(2 * Len(order)) |->
             IF k % 2 = 1
             THEN [op |-> "registerTrigger", arg |-> TriggerOf(order[(k + 1) \div 2])]
             ELSE [op |-> "registerContent", arg |-> ContentOf(order[k \div 2])]]

\* The cleanups these effects returned: the Accordion's return none.
MountCleanups(w, order) ==
    IF w = "StrictTabs"
    THEN [k \in 1..Len(order) |->
             [op |-> "unregisterTrigger", arg |-> TriggerOf(order[k])]]
         \o [k \in 1..Len(order) |->
             [op |-> "unregisterContent", arg |-> ContentOf(order[k])]]
    ELSE <<>>

\* StrictMode mounts a tree by running its effects, their cleanups and the
\* effects again.
StrictModeMount(w, order) ==
    MountEffects(w, order) \o MountCleanups(w, order) \o MountEffects(w, order)

\* One effect or cleanup call applied to <<registry, active identifier>>.
ApplyCall(w, st, call) ==
    IF w = "StrictTabs"
    THEN IF call.op = "registerTrigger"
         THEN <<RootTabs_registerTrigger(st[1], call.arg), st[2]>>
         ELSE IF call.op = "registerContent"
         THEN <<RootTabs_registerContent(st[1], call.arg),
                RootTabs_initActiveContentId(st[2], call.arg)>>
         ELSE IF call.op = "unregisterTrigger"
         THEN <<RootTabs_unregisterTrigger(st[1], call.arg),
                RootTabs_unregister_activeContentId(
                    RootTabs_unregisterTrigger(st[1], call.arg), st[2])>>
         ELSE <<RootTabs_unregisterContent(st[1], call.arg),
                RootTabs_unregister_activeContentId(
                    RootTabs_unregisterContent(st[1], call.arg), st[2])>>
    ELSE IF call.op = "registerTrigger"
         THEN <<RootAccordion_registerTrigger(st[1], call.arg), st[2]>>
         ELSE <<RootAccordion_registerContent(st[1], call.arg), st[2]>>

RECURSIVE ApplyCalls(_, _, _)
ApplyCalls(w, st, cs) ==
    IF cs = <<>> THEN st ELSE ApplyCalls(w, ApplyCall(w, st, Head(cs)), Tail(cs))

\* The next effect or cleanup of the StrictMode mount of Tabs.
StrictTabsRun ==
    /\ widget = "StrictTabs"
    /\ strictQueue # <<>>
    /\ \/ /\ Head(strictQueue).op = "registerTrigger"
          /\ TabsRegisterTrigger(Head(strictQueue).arg)
       \/ /\ Head(strictQueue).op = "registerContent"
          /\ TabsRegisterContent(Head(strictQueue).arg)
       \/ /\ Head(strictQueue).op = "unregisterTrigger"
          /\ TabsUnregisterTrigger(Head(strictQueue).arg)
       \/ /\ Head(strictQueue).op = "unregisterContent"
          /\ TabsUnregisterContent(Head(strictQueue).arg)
    /\ strictQueue' = Tail(strictQueue)
    /\ UNCHANGED <<widget, accordionVars, keyedVars, lifecycleVars, modalVars,
                   strictOrder>>

\* The next effect of the StrictMode mount of the Accordion.
StrictAccordionRun ==
    /\ widget = "StrictAccordion"
    /\ strictQueue # <<>>
    /\ \/ /\ Head(strictQueue).op = "registerTrigger"
          /\ items' = RootAccordion_registerTrigger(items, Head(strictQueue).arg)
       \/ /\ Head(strictQueue).op = "registerContent"
          /\ items' = RootAccordion_registerContent(items, Head(strictQueue).arg)
    /\ UNCHANGED accordionActiveContentId
    /\ RecordRegistryCall(Head(strictQueue).op, Head(strictQueue).arg)
    /\ strictQueue' = Tail(strictQueue)
    /\ UNCHANGED <<widget, tabsVars, keyedVars, lifecycleVars, modalVars, strictOrder>>

\* ------------------------------------------------------------------ Modal

\* The keys of the keydown events the environment sends.
KeyboardKeys == {"Escape", "Enter"}

\* ModalContent.handleEscape: the isOpen it leaves.
ModalContent_handleEscape(open, key) ==
    IF key = "Escape" THEN FALSE ELSE open

\* document.dispatchEvent(keydown): every attached handleEscape listener is
\* invoked with the event.
Document_keydown(open, attached, key) ==
    IF attached > 0 THEN ModalContent_handleEscape(open, key) ELSE open

\* Mutant: the effect attaches the listener also while the modal is closed.
ModalContent_effect_always(open, attached) == attached + 1

\* ModalContent's effect body: the attached listeners it leaves.
ModalContent_effect(open, attached) ==
    IF ~open THEN attached ELSE attached + 1

\* Mutant: the effect returns no cleanup, so the listener stays attached.
ModalContent_cleanup_leak(live, attached) == attached

\* The cleanup the effect returned, if it returned one.
ModalContent_cleanup(live, attached) ==
    IF live THEN attached - 1 ELSE attached

ModalOthersUnchanged ==
    UNCHANGED <<widget, tabsVars, accordionVars, keyedVars, lifecycleVars, strictVars,
                historyVars>>

\* setIsOpen(next): a changed isOpen re-renders ModalContent, and the commit
\* runs the previous effect's cleanup and then the effect ([isOpen] deps).
SetIsOpen(next) ==
    /\ isOpen' = next
    /\ effectPhase' = IF next # isOpen THEN "cleanup" ELSE effectPhase

\* The user events are discrete events: the effects of the commit they cause
\* are flushed before the next event is handled.
ModalSettled == widget = "Modal" /\ effectPhase = "settled"

ModalTriggerClick ==
    /\ ModalSettled
    /\ modalMounted
    /\ SetIsOpen(TRUE)
    /\ opens' = IF isOpen THEN opens ELSE IF opens = 0 THEN 1 ELSE 2
    /\ UNCHANGED <<listeners, effectLive, modalMounted, lastKey, handlerCalls>>
    /\ ModalOthersUnchanged

\* The overlay is rendered only while the modal is open.
ModalOverlayClick ==
    /\ ModalSettled
    /\ modalMounted
    /\ isOpen
    /\ SetIsOpen(FALSE)
    /\ UNCHANGED <<listeners, effectLive, modalMounted, opens, lastKey, handlerCalls>>
    /\ ModalOthersUnchanged

\* The close button is a child of ModalContent, rendered only while open.
ModalCloseButtonClick ==
    /\ ModalSettled
    /\ modalMounted
    /\ isOpen
    /\ SetIsOpen(FALSE)
    /\ UNCHANGED <<listeners, effectLive, modalMounted, opens, lastKey, handlerCalls>>
    /\ ModalOthersUnchanged

\* A keydown event on document; a setIsOpen call of an unmounted tree has no
\* effect.
KeyDown(key) ==
    /\ ModalSettled
    /\ IF modalMounted
       THEN SetIsOpen(Document_keydown(isOpen, listeners, key))
       ELSE UNCHANGED <<isOpen, effectPhase>>
    /\ lastKey' = key
    /\ handlerCalls' = listeners
    /\ UNCHANGED <<listeners, effectLive, modalMounted, opens>>
    /\ ModalOthersUnchanged

\* The Modal tree is unmounted: the cleanup of ModalContent's effect is due.
ModalUnmount ==
    /\ ModalSettled
    /\ modalMounted
    /\ modalMounted' = FALSE
    /\ effectPhase' = "unmount"
    /\ UNCHANGED <<isOpen, listeners, effectLive, opens, lastKey, handlerCalls>>
    /\ ModalOthersUnchanged

\* The Modal tree is mounted again: useState(false), and the effect is due.
ModalMount ==
    /\ ModalSettled
    /\ ~modalMounted
    /\ modalMounted' = TRUE
    /\ isOpen' = FALSE
    /\ effectPhase' = "effect"
    /\ UNCHANGED <<listeners, effectLive, opens, lastKey, handlerCalls>>
    /\ ModalOthersUnchanged

\* The cleanup runs before the effect of the next commit, and on unmount.
ModalRunCleanup ==
    /\ widget = "Modal"
    /\ effectPhase \in {"cleanup", "unmount"}
    /\ listeners' = ModalContent_cleanup(effectLive, listeners)
    /\ effectLive' = FALSE
    /\ effectPhase' = IF effectPhase = "cleanup" THEN "effect" ELSE "settled"
    /\ UNCHANGED <<isOpen, modalMounted, opens, lastKey, handlerCalls>>
    /\ ModalOthersUnchanged

ModalRunEffect ==
    /\ widget = "Modal"
    /\ effectPhase = "effect"
    /\ listeners' = ModalContent_effect(isOpen, listeners)
    /\ effectLive' = isOpen
    /\ effectPhase' = "settled"
    /\ UNCHANGED <<isOpen, modalMounted, opens, lastKey, handlerCalls>>
    /\ ModalOthersUnchanged

\* ---------------------------------------------------------- specification

Widgets == {"Tabs", "TabsLifecycle", "Accordion", "KeyedTabs", "Modal",
            "StrictTabs", "StrictAccordion"}

Init ==
    /\ widget \in Widgets
    /\ tabs = <<>>
    /\ activeContentId = Null
    /\ items = <<>>
    /\ accordionActiveContentId = Null
    /\ IF widget = "KeyedTabs"
       THEN /\ value \in Keys \cup {Undefined}
            /\ internalValue \in Keys
            /\ onChange \in {"setActiveTab", Undefined}
       ELSE /\ value = String(FirstKey)
            /\ internalValue = String(FirstKey)
            /\ onChange = "setActiveTab"
    /\ mounted = {}
    /\ effects = <<>>
    /\ cleanups = {}
    /\ IF widget \in {"StrictTabs", "StrictAccordion"}
       THEN /\ \E S \in SUBSET Pairs : strictOrder \in Orders(S)
            /\ strictQueue = StrictModeMount(widget, strictOrder)
       ELSE /\ strictOrder = <<>>
            /\ strictQueue = <<>>
    /\ isOpen = FALSE
    /\ listeners = 0
    /\ effectLive = FALSE
    /\ effectPhase = "settled"
    /\ modalMounted = TRUE
    /\ opens = 0
    /\ lastKey = "none"
    /\ handlerCalls = 0
    /\ calls = <<>>
    /\ log = <<>>
    /\ logOk = TRUE
    /\ contentCalls = 0

Next ==
    \/ \E id \in TriggerIds : CallRegisterTrigger(id)
    \/ \E c \in ContentIds : CallRegisterContent(c)
    \/ \E id \in TriggerIds : CallUnregisterTrigger(id)
    \/ \E c \in ContentIds : CallUnregisterContent(c)
    \/ \E id \in TriggerIds : TabsClick(id)
    \/ TabsPrev
    \/ TabsNext
    \/ MountSome
    \/ UnmountSome
    \/ RunEffect
    \/ \E c \in cleanups : RunCleanup(c)
    \/ \E id \in TriggerIds : AccordionRegisterTrigger(id)
    \/ \E c \in ContentIds : AccordionRegisterContent(c)
    \/ \E id \in TriggerIds : AccordionClick(id)
    \/ \E v \in Keys : KeyedClick(v)
    \/ KeyedPrev
    \/ KeyedNext
    \/ StrictTabsRun
    \/ StrictAccordionRun
    \/ ModalTriggerClick
    \/ ModalOverlayClick
    \/ ModalCloseButtonClick
    \/ \E key \in KeyboardKeys : KeyDown(key)
    \/ ModalUnmount
    \/ ModalMount
    \/ ModalRunCleanup
    \/ ModalRunEffect

Spec == Init /\ [][Next]_vars

\* ------------------------------------------------------------ properties

\* The registry of the widget under exercise.
Registry == IF widget = "Accordion" THEN items ELSE tabs

Positional == widget \in {"Tabs", "TabsLifecycle", "Accordion"}
PositionalTabs == widget \in {"Tabs", "TabsLifecycle"}

\* contentId c is bound to a slot of reg.
Bound(reg, c) == \E k \in 1..Len(reg) : reg[k].contentId = c

\* No slot of reg has an unset contentId.
AllBound(reg) == \A k \in 1..Len(reg) : reg[k].contentId # Null

\* The call history is n registerTrigger calls followed by n registerContent
\* calls (the ids are pairwise distinct while logOk holds).
TriggersThenContents(l, n) ==
    /\ Len(l) = 2 * n
    /\ \A k \in 1..n : l[k].op = "registerTrigger" /\ l[n + k].op = "registerContent"

\* C1: after N registerTrigger calls with distinct ids followed by N
\* registerContent calls with distinct ids on an empty registry, the registry
\* holds N slots and the k-th registered content is bound to the slot of the
\* k-th registered trigger (Tabs and Accordion).
C1_OrdinalBinding ==
    \A n \in 0..NumIds :
        (Positional /\ logOk /\ TriggersThenContents(log, n)) =>
            /\ Len(Registry) = n
            /\ \A k \in 1..n :
                   /\ Registry[k].id = log[k].arg
                   /\ Registry[k].contentId = log[n + k].arg

\* NumIds pairs registered with the ids out of numerical order.
C1_Witness ==
    /\ widget = "Accordion"
    /\ logOk
    /\ TriggersThenContents(log, NumIds)
    /\ log[1].arg = "t2" /\ log[NumIds + 1].arg = "c3"
    /\ items[1].id = "t2" /\ items[1].contentId = "c3"

\* C2: when trigger/content pairs are mounted together (trigger effects
\* first, contents in the same order) and unmounted together (both cleanups,
\* either order), between commits every slot that holds a content holds the
\* content of its own partner.
C2_PairingConsistent ==
    (widget = "TabsLifecycle" /\ effects = <<>> /\ cleanups = {}) =>
        \A k \in 1..Len(tabs) :
            tabs[k].contentId # Null =>
                \E i \in Pairs :
                    tabs[k].id = TriggerOf(i) /\ tabs[k].contentId = ContentOf(i)

\* The demo page after Tab 2 was hidden and shown again.
C2_Witness ==
    /\ widget = "TabsLifecycle"
    /\ effects = <<>> /\ cleanups = {}
    /\ mounted = {1, 2, 3}
    /\ Len(tabs) = 3
    /\ tabs[1].id = "t1" /\ tabs[1].contentId = "c1"
    /\ tabs[2].id = "t3" /\ tabs[2].contentId = "c3"
    /\ tabs[3].id = "t2" /\ tabs[3].contentId = "c2"

\* C3: registerTrigger(id) with a slot of that triggerId present leaves the
\* registry unchanged: same length, slot order and bindings (Tabs and
\* Accordion).
C3_DuplicateTriggerIgnored ==
    /\ \A k \in 1..Len(tabs) : RootTabs_registerTrigger(tabs, tabs[k].id) = tabs
    /\ \A k \in 1..Len(items) : RootAccordion_registerTrigger(items, items[k].id) = items

\* An Accordion whose effects ran twice: the repeated call ended the
\* distinct-id history, and a bound and an unmatched slot are present.
C3_Witness ==
    /\ widget = "Accordion"
    /\ Len(items) = 2
    /\ items[1].contentId # Null /\ items[2].contentId = Null
    /\ ~logOk
    /\ RootAccordion_registerTrigger(items, items[1].id) = items

\* C4 as claimed: registerContent(c) with no unset slot leaves every slot
\* unchanged and c is bound to no slot afterwards.
C4_Claimed ==
    \A c \in ContentIds :
        /\ AllBound(tabs) =>
               /\ RootTabs_registerContent(tabs, c) = tabs
               /\ ~Bound(RootTabs_registerContent(tabs, c), c)
        /\ AllBound(items) =>
               /\ RootAccordion_registerContent(items, c) = items
               /\ ~Bound(RootAccordion_registerContent(items, c), c)

\* C4 (amended): registerContent(c) with no unset slot leaves every slot
\* unchanged; c is bound to no slot afterwards unless it was bound already,
\* and then it stays bound to the slot that held it.
C4_NoFreeSlotIgnored ==
    \A c \in ContentIds :
        /\ AllBound(tabs) =>
               /\ RootTabs_registerContent(tabs, c) = tabs
               /\ Bound(RootTabs_registerContent(tabs, c), c) <=> Bound(tabs, c)
        /\ AllBound(items) =>
               /\ RootAccordion_registerContent(items, c) = items
               /\ Bound(RootAccordion_registerContent(items, c), c) <=> Bound(items, c)

\* Two bound slots and a third content that finds no unmatched slot.
C4_Witness ==
    /\ widget = "Accordion"
    /\ Len(items) = 2
    /\ AllBound(items)
    /\ ~Bound(items, "c3")
    /\ ~logOk
    /\ RootAccordion_registerContent(items, "c3") = items

\* C5 as claimed: in the positional Tabs a registerContent(c) call that binds
\* c to no slot leaves the active identifier unchanged, so that the active
\* identifier is initialized only by a content that was bound to a slot.
C5_Claimed ==
    [][\A c \in ContentIds :
           (PositionalTabs /\ TabsRegisterContent(c) /\ ~Bound(tabs', c)) =>
               activeContentId' = activeContentId]_vars

\* C6: in the positional Tabs the first registerContent call makes its
\* contentId the active identifier, and every later registerContent call leaves
\* the active identifier unchanged.
C6_FirstContentActive ==
    PositionalTabs =>
        \A c \in ContentIds :
            /\ contentCalls = 0 =>
                   RootTabs_initActiveContentId(activeContentId, c) = c
            /\ contentCalls > 0 =>
                   RootTabs_initActiveContentId(activeContentId, c) = activeContentId
            /\ (logOk /\ CountOp(log, "registerContent") > 0) =>
                   \E k \in 1..Len(log) :
                       /\ log[k].op = "registerContent"
                       /\ \A j \in 1..(k - 1) : log[j].op # "registerContent"
                       /\ activeContentId = log[k].arg

\* Every content registered, c2 first: c2 is still the active one.
C6_Witness ==
    /\ widget = "Tabs"
    /\ logOk
    /\ CountOp(log, "registerContent") = NumIds
    /\ contentCalls = 2
    /\ activeContentId = "c2"
    /\ tabs[NumIds].contentId # "c2"

\* C7: unregisterTrigger(id) removes exactly the slot whose triggerId is id
\* (nothing when there is none), leaves every other slot and the slot order
\* unchanged, and the contentId of the removed slot is bound to no slot
\* afterwards.
C7_UnregisterTriggerFrame ==
    PositionalTabs =>
        \A id \in TriggerIds :
            LET after == RootTabs_unregisterTrigger(tabs, id)
                at == {k \in 1..Len(tabs) : tabs[k].id = id}
            IN  /\ at = {} => after = tabs
                /\ at # {} =>
                       \E p \in at :
                           /\ at = {p}
                           /\ Len(after) = Len(tabs) - 1
                           /\ \A k \in 1..(p - 1) : after[k] = tabs[k]
                           /\ \A k \in p..Len(after) : after[k] = tabs[k + 1]
                           /\ tabs[p].contentId # Null =>
                                  ~Bound(after, tabs[p].contentId)

\* Three slots, the first two bound and the third unmatched: unregistering the
\* second trigger leaves two slots, and its content is not handed to the
\* unmatched slot.
C7_Witness ==
    /\ widget = "Tabs"
    /\ Len(tabs) = 3
    /\ tabs[1].contentId # Null /\ tabs[2].contentId # Null /\ tabs[3].contentId = Null
    /\ Len(RootTabs_unregisterTrigger(tabs, tabs[2].id)) = 2
    /\ ~Bound(RootTabs_unregisterTrigger(tabs, tabs[2].id), tabs[2].contentId)

\* C8: in the keyed Tabs in controlled mode with a change callback and
\* current value x, setValue(x) invokes the callback zero times and
\* setValue(y), y # x, invokes it exactly once with y; the internal value is
\* unchanged, and the active key views read equals the caller-supplied value.
C8_ControlledSetValue ==
    (widget = "KeyedTabs" /\ RootTabs_isControlled(value) /\ onChange # Undefined) =>
        /\ RootTabs_activeKey(value, internalValue) = value
        /\ calls # <<>> => (Len(calls) = 1 /\ value = calls[1])
        /\ \A newValue \in Keys :
               LET made == RootTabs_setValue_calls(value, internalValue, onChange, newValue)
                   internal == RootTabs_setValue_internal(value, internalValue, newValue)
                   supplied == App_setActiveTab(value, made)
               IN  /\ newValue = value => made = <<>>
                   /\ newValue # value => made = <<newValue>>
                   /\ internal = internalValue
                   /\ RootTabs_activeKey(supplied, internal) = supplied

\* setValue("2") has invoked the callback once; internalValue kept its
\* initial "3", and a second setValue("2") would invoke nothing.
C8_Witness ==
    /\ widget = "KeyedTabs"
    /\ RootTabs_isControlled(value) /\ onChange # Undefined
    /\ calls = <<"2">>
    /\ value = "2"
    /\ internalValue = "3"
    /\ RootTabs_setValue_calls(value, internalValue, onChange, "2") = <<>>

\* C9: in the positional Tabs with every slot bound and the active content
\* bound to slot i, previous makes the contentId of slot i-1 active (of the
\* last slot when i is the first) and next that of slot i+1 (of the first slot
\* when i is the last).
C9_NavigationWraps ==
    (PositionalTabs /\ AllBound(tabs)) =>
        \A i \in 1..Len(tabs) :
            tabs[i].contentId = activeContentId =>
                /\ TabsNavigate_handlePrev(tabs, activeContentId) =
                       tabs[IF i = 1 THEN Len(tabs) ELSE i - 1].contentId
                /\ TabsNavigate_handleNext(tabs, activeContentId) =
                       tabs[IF i = Len(tabs) THEN 1 ELSE i + 1].contentId

\* Three bound slots with the first one active.
C9_Witness ==
    /\ widget = "Tabs"
    /\ Len(tabs) = 3
    /\ AllBound(tabs)
    /\ activeContentId = tabs[1].contentId
    /\ TabsNavigate_handlePrev(tabs, activeContentId) = tabs[3].contentId
    /\ TabsNavigate_handleNext(tabs, activeContentId) = tabs[2].contentId

\* AccordionContent renders its children only for the active contentId.
AccordionContent_isShown(contentId) == accordionActiveContentId = contentId

\* C10: in the Accordion a click on the trigger whose content is active sets
\* the active identifier to none, a click on a trigger bound to another
\* content makes that content the active one, and at most one content is
\* active at any time.
C10_AccordionToggle ==
    widget = "Accordion" =>
        /\ \A k \in 1..Len(items) :
               items[k].contentId # Null =>
                   AccordionTrigger_handleClick(items, accordionActiveContentId, items[k].id)
                       = IF items[k].contentId = accordionActiveContentId
                         THEN Null
                         ELSE items[k].contentId
        /\ Cardinality({c \in ContentIds : AccordionContent_isShown(c)}) <= 1
        /\ accordionActiveContentId # Null => Bound(items, accordionActiveContentId)

\* Three bound items with the second one open.
C10_Witness ==
    /\ widget = "Accordion"
    /\ Len(items) = 3
    /\ AllBound(items)
    /\ accordionActiveContentId = items[2].contentId
    /\ AccordionTrigger_handleClick(items, accordionActiveContentId, items[2].id) = Null
    /\ AccordionTrigger_handleClick(items, accordionActiveContentId, items[3].id)
           = items[3].contentId

\* C11: in the Modal an Escape key press while the modal is closed changes
\* nothing, an Escape key press while it is open closes it, and once the modal
\* has closed and the effect cleanup has run no key press invokes the Escape
\* handler until the modal is opened again.
C11_EscapeDismissal ==
    ModalSettled =>
        /\ ~isOpen =>
               /\ listeners = 0
               /\ \A key \in KeyboardKeys : Document_keydown(isOpen, listeners, key) = isOpen
        /\ (isOpen /\ modalMounted) =>
               /\ listeners = 1
               /\ Document_keydown(isOpen, listeners, "Escape") = FALSE
        /\ handlerCalls <= 1

\* The modal was closed by Escape, the cleanup ran, and no listener is left.
C11_Witness ==
    /\ ModalSettled
    /\ lastKey = "Escape"
    /\ handlerCalls = 1
    /\ ~isOpen
    /\ listeners = 0

\* C12: in every state reachable by registerTrigger, unregisterTrigger,
\* registerContent and unregisterContent calls, no two slots have the same
\* triggerId and no two slots hold the same set contentId.
C12_SlotsUnique ==
    Positional =>
        \A i, j \in 1..Len(Registry) :
            i # j =>
                /\ Registry[i].id # Registry[j].id
                /\ Registry[i].contentId # Null =>
                       Registry[i].contentId # Registry[j].contentId

\* Two bound slots after a call history with a repeated or an unregister call.
C12_Witness ==
    /\ widget = "Tabs"
    /\ ~logOk
    /\ Len(tabs) = 2
    /\ tabs[1].id = "t2"
    /\ tabs[2].id = "t1"
    /\ AllBound(tabs)

\* The slots of pre that are still in post keep their relative order: the
\* trigger ids the two registries share come in the same order in both.
PreservesOrder(pre, post) ==
    LET before == [k \in 1..Len(pre) |-> pre[k].id]
        after == [k \in 1..Len(post) |-> post[k].id]
    IN  SelectSeq(before, LAMBDA id : \E k \in 1..Len(after) : after[k] = id)
        = SelectSeq(after, LAMBDA id : \E k \in 1..Len(before) : before[k] = id)

\* registerTrigger(id) with an unknown id creates one slot behind all of pre.
AppendsSlot(pre, post, id) ==
    FindIndexById(pre, id) = -1 =>
        /\ Len(post) = Len(pre) + 1
        /\ post[Len(post)].id = id
        /\ \A k \in 1..Len(pre) : post[k].id = pre[k].id

\* C13: slot order is append-only: every registry operation keeps the relative
\* order of the slots present before and after it, and a slot created by
\* registerTrigger is placed after all existing slots.
C13_AppendOnlyOrder ==
    /\ PositionalTabs =>
           /\ \A t \in TriggerIds :
                  /\ PreservesOrder(tabs, RootTabs_registerTrigger(tabs, t))
                  /\ AppendsSlot(tabs, RootTabs_registerTrigger(tabs, t), t)
                  /\ PreservesOrder(tabs, RootTabs_unregisterTrigger(tabs, t))
           /\ \A c \in ContentIds :
                  /\ PreservesOrder(tabs, RootTabs_registerContent(tabs, c))
                  /\ PreservesOrder(tabs, RootTabs_unregisterContent(tabs, c))
    /\ widget = "Accordion" =>
           /\ \A t \in TriggerIds :
                  /\ PreservesOrder(items, RootAccordion_registerTrigger(items, t))
                  /\ AppendsSlot(items, RootAccordion_registerTrigger(items, t), t)
           /\ \A c \in ContentIds :
                  PreservesOrder(items, RootAccordion_registerContent(items, c))

\* Trigger t1, whose content c1 became active, was unregistered and registered
\* again: its new slot is the last one and has no content.
C13_Witness ==
    /\ widget = "Tabs"
    /\ Len(tabs) >= 2
    /\ tabs[1].id = "t2"
    /\ tabs[Len(tabs)].id = "t1"
    /\ tabs[Len(tabs)].contentId = Null
    /\ activeContentId = "c1"
    /\ ~Bound(tabs, "c1")

\* C14: unregisterTrigger and unregisterContent leave the active identifier
\* unchanged, also when the removed trigger's slot or the removed content is
\* the active one; the active identifier is then bound to no slot.
C14_UnregisterKeepsActive ==
    PositionalTabs =>
        /\ \A id \in TriggerIds :
               LET after == RootTabs_unregisterTrigger(tabs, id)
                   at == FindIndexById(tabs, id)
               IN  /\ RootTabs_unregister_activeContentId(after, activeContentId)
                          = activeContentId
                   /\ (Truthy(activeContentId) /\ ContentIdAt(tabs, at) = activeContentId)
                          => ~Bound(after, activeContentId)
        /\ \A contentId \in ContentIds :
               LET after == RootTabs_unregisterContent(tabs, contentId)
               IN  /\ RootTabs_unregister_activeContentId(after, activeContentId)
                          = activeContentId
                   /\ contentId = activeContentId => ~Bound(after, activeContentId)

\* The first slot lost its content c1, which is still the active identifier,
\* while a later slot is still bound.
C14_Witness ==
    /\ PositionalTabs
    /\ Len(tabs) = 2
    /\ tabs[1].contentId = Null
    /\ tabs[2].contentId = "c2"
    /\ activeContentId = "c1"
    /\ ~Bound(tabs, activeContentId)

\* C15: unregisterContent(c), with c bound to slot s, leaves s at the same
\* position with its contentId unset and changes no other slot; a following
\* registerContent(d) with d bound to no slot binds d to the first slot in
\* order whose contentId is unset, which is s when no earlier slot is unset.
C15_UnregisterContentFreesSlot ==
    PositionalTabs =>
        \A c \in ContentIds :
            Bound(tabs, c) =>
                LET after == RootTabs_unregisterContent(tabs, c)
                    s == FindIndexByContentId(tabs, c) + 1
                IN  /\ Len(after) = Len(tabs)
                    /\ after[s] = [tabs[s] EXCEPT !.contentId = Null]
                    /\ \A k \in 1..Len(tabs) : k # s => after[k] = tabs[k]
                    /\ \A d \in ContentIds :
                           ~Bound(after, d) =>
                               LET first == FindIndexByContentId(after, Null) + 1
                                   refilled == RootTabs_registerContent(after, d)
                               IN  /\ first \in 1..s
                                   /\ \A k \in 1..(first - 1) : after[k].contentId # Null
                                   /\ refilled = [after EXCEPT ![first].contentId = d]
                                   /\ (\A k \in 1..(s - 1) : tabs[k].contentId # Null)
                                          => first = s

\* The first slot lost its content while the two slots behind it are bound:
\* unregistering the second slot's content and registering a content again
\* fills the first slot, not the second.
C15_Witness ==
    /\ widget = "Tabs"
    /\ Len(tabs) = 3
    /\ tabs[1].contentId = Null
    /\ tabs[2].contentId = "c2"
    /\ tabs[3].contentId = "c3"
    /\ RootTabs_registerContent(RootTabs_unregisterContent(tabs, "c2"), "c1")[1].contentId = "c1"
    /\ RootTabs_registerContent(RootTabs_unregisterContent(tabs, "c2"), "c1")[2].contentId = Null

\* The arguments of the calls of op in call history l, in call order.
ArgsOf(l, op) ==
    LET sel == SelectSeq(l, LAMBDA e : e.op = op)
    IN  [k \in 1..Len(sel) |-> sel[k].arg]

\* C16: for any interleaving of registerTrigger and registerContent calls with
\* distinct ids on an empty registry, with no unregister calls, in which every
\* prefix holds at least as many trigger as content registrations, the k-th
\* registered content is bound to the k-th registered trigger; the Accordion's
\* mount order T1, C1, T2, C2, T3, C3 is one of them.
C16_InterleavedOrdinalBinding ==
    (Positional /\ logOk) =>
        LET triggers == ArgsOf(log, "registerTrigger")
            contents == ArgsOf(log, "registerContent")
        IN  /\ Len(contents) <= Len(triggers)
            /\ Len(Registry) = Len(triggers)
            /\ \A k \in 1..Len(triggers) :
                   /\ Registry[k].id = triggers[k]
                   /\ Registry[k].contentId =
                          IF k <= Len(contents) THEN contents[k] ELSE Null

\* The Accordion of the demo page after its effects ran in mount order.
C16_Witness ==
    /\ widget = "Accordion"
    /\ logOk
    /\ log = <<[op |-> "registerTrigger", arg |-> "t1"],
               [op |-> "registerContent", arg |-> "c1"],
               [op |-> "registerTrigger", arg |-> "t2"],
               [op |-> "registerContent", arg |-> "c2"],
               [op |-> "registerTrigger", arg |-> "t3"],
               [op |-> "registerContent", arg |-> "c3"]>>
    /\ Len(items) = 3
    /\ \A k \in 1..3 : items[k].id = AllTriggerIds[k] /\ items[k].contentId = AllContentIds[k]

\* C17: running the mount effects twice with the same ids, as the StrictMode
\* root does (all registrations, then all cleanups, then all registrations
\* again), leaves the registry and the active identifier equal to what a single
\* mount pass produces, for Tabs (whose cleanups unregister) and for the
\* Accordion (which has no cleanups and ignores duplicate registrations).
C17_StrictModeMount ==
    (widget \in {"StrictTabs", "StrictAccordion"} /\ strictQueue = <<>>) =>
        LET reg == IF widget = "StrictTabs" THEN tabs ELSE items
            active == IF widget = "StrictTabs"
                      THEN activeContentId ELSE accordionActiveContentId
        IN  /\ <<reg, active>> =
                   ApplyCalls(widget, <<<<>>, Null>>, MountEffects(widget, strictOrder))
            /\ Len(reg) = Len(strictOrder)
            /\ \A k \in 1..Len(reg) :
                   /\ reg[k].id = TriggerOf(strictOrder[k])
                   /\ reg[k].contentId = ContentOf(strictOrder[k])
            /\ active = IF widget = "StrictTabs" /\ strictOrder # <<>>
                        THEN ContentOf(strictOrder[1]) ELSE Null

\* The StrictMode mount of the Tabs of the demo page has finished.
C17_Witness ==
    /\ widget = "StrictTabs"
    /\ strictOrder = <<1, 2, 3>>
    /\ strictQueue = <<>>
    /\ Len(tabs) = 3
    /\ activeContentId = "c1"

\* C18: in positional Tabs, previous and next leave the registry and the
\* active identifier unchanged whenever no content is active or the active
\* contentId is bound to no slot.
C18_NavigateWithoutActiveSlot ==
    [][(/\ widget = "Tabs"
        /\ ~Truthy(activeContentId) \/ ~Bound(tabs, activeContentId)
        /\ TabsPrev \/ TabsNext)
       => (tabs' = tabs /\ activeContentId' = activeContentId)]_vars

\* Two bound slots while the active identifier c1 is bound to no slot, after a
\* user action.
C18_Witness ==
    /\ widget = "Tabs"
    /\ ~logOk
    /\ Len(tabs) = 2
    /\ AllBound(tabs)
    /\ activeContentId = "c1"
    /\ ~Bound(tabs, "c1")
    /\ TabsNavigate_handlePrev(tabs, activeContentId) = activeContentId
    /\ TabsNavigate_handleNext(tabs, activeContentId) = activeContentId

\* The slot "next" (step 1) or "previous" (step -1) moves to from the slot
\* at 0-based index at, wrapping at the ends.
Neighbour(reg, at, step) == (at + step + Len(reg)) % Len(reg)

\* C19: every change of the active identifier caused by a user action (trigger
\* click in Tabs or Accordion, previous or next in Tabs) sets it to a contentId
\* bound to a slot at that moment, or to none by the Accordion's toggle;
\* clicking a trigger whose slot has no content, and navigating onto a
\* neighbouring slot whose contentId is unset, leave it unchanged.
C19_UserActionsActivateBoundContent ==
    [][/\ (/\ widget = "Tabs"
           /\ activeContentId' # activeContentId
           /\ (\E t \in TriggerIds : TabsClick(t)) \/ TabsPrev \/ TabsNext)
           => (Truthy(activeContentId') /\ Bound(tabs, activeContentId'))
       /\ (/\ widget = "Accordion"
           /\ accordionActiveContentId' # accordionActiveContentId
           /\ \E t \in TriggerIds : AccordionClick(t))
           => \/ accordionActiveContentId' = Null
              \/ Truthy(accordionActiveContentId') /\ Bound(items, accordionActiveContentId')
       /\ \A t \in TriggerIds :
              /\ (/\ widget = "Tabs"
                  /\ ~Truthy(ContentIdAt(tabs, FindIndexById(tabs, t)))
                  /\ TabsClick(t))
                     => activeContentId' = activeContentId
              /\ (/\ widget = "Accordion"
                  /\ ~Truthy(ContentIdAt(items, FindIndexById(items, t)))
                  /\ AccordionClick(t))
                     => accordionActiveContentId' = accordionActiveContentId
       /\ \A step \in {-1, 1} :
              (/\ widget = "Tabs"
               /\ Truthy(activeContentId)
               /\ Bound(tabs, activeContentId)
               /\ ~Truthy(ContentIdAt(tabs,
                      Neighbour(tabs, FindIndexByContentId(tabs, activeContentId), step)))
               /\ IF step = 1 THEN TabsNext ELSE TabsPrev)
              => activeContentId' = activeContentId
      ]_vars

\* The active content c1 sits in the first of two slots and the second slot
\* lost its content: a click on the second trigger, previous and next all leave
\* c1 active.
C19_Witness ==
    /\ widget = "Tabs"
    /\ Len(tabs) = 2
    /\ tabs[1].contentId = "c1"
    /\ tabs[2].contentId = Null
    /\ activeContentId = "c1"
    /\ contentCalls = 2
    /\ TabsTrigger_handleClick(tabs, activeContentId, tabs[2].id) = "c1"
    /\ TabsNavigate_handleNext(tabs, activeContentId) = "c1"
    /\ TabsNavigate_handlePrev(tabs, activeContentId) = "c1"

\* C20: in every reachable state of the Tabs and Accordion widgets at most one
\* registered trigger computes isActive = true, and a trigger computes
\* isActive = true only if its slot has a content bound and that content is
\* the active one.
C20_Claimed ==
    /\ PositionalTabs =>
           /\ \A k, m \in 1..Len(tabs) :
                  (/\ TabsTrigger_isActive(tabs, activeContentId, tabs[k].id)
                   /\ TabsTrigger_isActive(tabs, activeContentId, tabs[m].id))
                  => k = m
           /\ \A k \in 1..Len(tabs) :
                  TabsTrigger_isActive(tabs, activeContentId, tabs[k].id)
                  => (tabs[k].contentId # Null /\ tabs[k].contentId = activeContentId)
    /\ widget = "Accordion" =>
           /\ \A k, m \in 1..Len(items) :
                  (/\ AccordionTrigger_isActive(items, accordionActiveContentId, items[k].id)
                   /\ AccordionTrigger_isActive(items, accordionActiveContentId, items[m].id))
                  => k = m
           /\ \A k \in 1..Len(items) :
                  AccordionTrigger_isActive(items, accordionActiveContentId, items[k].id)
                  => (/\ items[k].contentId # Null
                      /\ items[k].contentId = accordionActiveContentId)

\* C21: in the Modal, once effects have settled after any sequence of open,
\* close (overlay click, close button, Escape) and unmount events, exactly one
\* Escape key listener is attached when the modal is open and mounted, and
\* none when it is closed or unmounted; listeners never accumulate across
\* open/close cycles.
C21_ListenerScoped ==
    ModalSettled =>
        /\ listeners = IF isOpen /\ modalMounted THEN 1 ELSE 0
        /\ effectLive = (isOpen /\ modalMounted)

\* The modal was unmounted while open, after it had been opened, closed and
\* opened again: no listener is left.
C21_Witness ==
    /\ ModalSettled
    /\ opens = 2
    /\ isOpen
    /\ ~modalMounted
    /\ listeners = 0

\* The active identifier after n consecutive "next" clicks.
RECURSIVE NextTimes(_, _, _)
NextTimes(reg, active, n) ==
    IF n = 0 THEN active
    ELSE NextTimes(reg, TabsNavigate_handleNext(reg, active), n - 1)

\* C22: in positional Tabs with every slot bound and the active content bound
\* to a slot, next followed by previous, and previous followed by next, restore
\* the original active identifier, and n consecutive next operations on a
\* registry of n slots return to the original active identifier.
C22_NavigationRoundTrip ==
    (/\ PositionalTabs
     /\ AllBound(tabs)
     /\ Truthy(activeContentId)
     /\ Bound(tabs, activeContentId)) =>
        /\ TabsNavigate_handlePrev(tabs, TabsNavigate_handleNext(tabs, activeContentId))
               = activeContentId
        /\ TabsNavigate_handleNext(tabs, TabsNavigate_handlePrev(tabs, activeContentId))
               = activeContentId
        /\ NextTimes(tabs, activeContentId, Len(tabs)) = activeContentId
        /\ \A n \in 1..(Len(tabs) - 1) : NextTimes(tabs, activeContentId, n) # activeContentId

\* Three bound slots with the second one active after a user action: next
\* wraps on the second of the three steps that lead back to it.
C22_Witness ==
    /\ widget = "Tabs"
    /\ ~logOk
    /\ Len(tabs) = 3
    /\ AllBound(tabs)
    /\ activeContentId = tabs[2].contentId
    /\ NextTimes(tabs, activeContentId, 1) = tabs[3].contentId
    /\ NextTimes(tabs, activeContentId, 2) = tabs[1].contentId
    /\ NextTimes(tabs, activeContentId, 3) = tabs[2].contentId

====
